---- MODULE Spec2Model ----
(***************************************************************************)
(* Relay chain binary sourcing of pop-parachains (up/relay.rs): the        *)
(* RelayChain registry, the conversion of a registry entry into a GitHub   *)
(* release archive source (try_into) and the two async entry points        *)
(* `default` and `from`.                                                   *)
(*                                                                         *)
(* Strings the code inspects (commands, binary names, URLs, file names)    *)
(* are sequences of one-character strings, so that to_lowercase,          *)
(* ends_with, format! and the repository parse are computed. Release tags  *)
(* and cache paths are only moved around by the code and are TLA+ strings. *)
(***************************************************************************)
EXTENDS Naturals, Sequences, FiniteSets

\* ------------------------------------------------------------- bounds
\* Longest release list the release query returns.
MaxReleases == 2
\* Number of resolution calls that may be in flight together.
MaxCalls == 2

\* ------------------------------------------------------------- values
\* Option<T>: None is the empty sequence, Some(v) the one-element sequence.
None == <<>>
Some(v) == <<v>>

\* Result::Ok(v) and Result::Err(e).
Ok(v) == [ok |-> TRUE, value |-> v]
Err(e) == [ok |-> FALSE, error |-> e]

\* ------------------------------------------------------------- strings
UpperCase ==
    <<"A","B","C","D","E","F","G","H","I","J","K","L","M",
      "N","O","P","Q","R","S","T","U","V","W","X","Y","Z">>
LowerCase ==
    <<"a","b","c","d","e","f","g","h","i","j","k","l","m",
      "n","o","p","q","r","s","t","u","v","w","x","y","z">>

\* The lower-case letter of each upper-case letter.
LowerOf ==
    [ch \in {UpperCase[i] : i \in 1..Len(UpperCase)} |->
        LowerCase[CHOOSE i \in 1..Len(UpperCase) : UpperCase[i] = ch]]

\* char::to_lowercase on the characters that occur here.
LowerChar(ch) == IF ch \in DOMAIN LowerOf THEN LowerOf[ch] ELSE ch

\* str::to_lowercase.
to_lowercase(s) == [i \in 1..Len(s) |-> LowerChar(s[i])]

\* str::ends_with.
ends_with(s, t) ==
    /\ Len(t) <= Len(s)
    /\ \A i \in 1..Len(t) : s[Len(s) - Len(t) + i] = t[i]

\* str::split('/'): the segments between the separators, in order.
RECURSIVE Split(_, _)
Split(s, sep) ==
    IF \A i \in 1..Len(s) : s[i] # sep
    THEN <<s>>
    ELSE LET k == CHOOSE i \in 1..Len(s) :
                      /\ s[i] = sep
                      /\ \A j \in 1..(i - 1) : s[j] # sep
         IN  <<SubSeq(s, 1, k - 1)>> \o Split(SubSeq(s, k + 1, Len(s)), sep)

\* ------------------------------------------------------------- registry
\* RelayChain::VARIANTS, in declared order.
VARIANTS == <<"Polkadot">>

\* Repository = "https://github.com/r0gue-io/polkadot"
repository(relay) ==
    <<"h","t","t","p","s",":","/","/","g","i","t","h","u","b",".","c","o","m","/",
      "r","0","g","u","e","-","i","o","/","p","o","l","k","a","d","o","t">>

\* Binary = "polkadot"
binary(relay) == <<"p","o","l","k","a","d","o","t">>

\* TagFormat = "polkadot-{tag}"
tag_format(relay) ==
    <<"p","o","l","k","a","d","o","t","-","{","t","a","g","}">>

\* ["polkadot-execute-worker", "polkadot-prepare-worker"]
workers(relay) ==
    << <<"p","o","l","k","a","d","o","t","-","e","x","e","c","u","t","e",
         "-","w","o","r","k","e","r">>,
       <<"p","o","l","k","a","d","o","t","-","p","r","e","p","a","r","e",
         "-","w","o","r","k","e","r">> >>

\* ------------------------------------------------------------- collaborators
\* "https:", "", "github.com": the segments a GitHub URL starts with.
GitHubHead ==
    << <<"h","t","t","p","s",":">>, <<>>,
       <<"g","i","t","h","u","b",".","c","o","m">> >>

\* crate::GitHub::parse: the organisation and the repository name of a
\* https://github.com/<org>/<name> URL, InvalidRepository otherwise.
parse(url) ==
    LET seg == Split(url, "/")
    IN  IF /\ Len(seg) = 5
           /\ SubSeq(seg, 1, 3) = GitHubHead
           /\ seg[4] # <<>>
           /\ seg[5] # <<>>
        THEN Ok([org |-> seg[4], name |-> seg[5]])
        ELSE Err([kind |-> "InvalidRepository", payload |-> url])

\* The target triples of the hosts a build can run on; a host whose triple
\* cannot be determined has None.
Triples ==
    { <<"x","8","6","_","6","4","-","u","n","k","n","o","w","n","-",
        "l","i","n","u","x","-","g","n","u">>,
      <<"a","a","r","c","h","6","4","-","a","p","p","l","e","-",
        "d","a","r","w","i","n">> }
Hosts == {Some(t) : t \in Triples} \cup {None}

\* target(): the host's triple, UnsupportedPlatform when there is none.
target(h) ==
    IF h = None
    THEN Err([kind |-> "UnsupportedPlatform", payload |-> <<>>])
    ELSE Ok(h[1])

\* ".tar.gz"
TarGz == <<".","t","a","r",".","g","z">>

\* Release tags, newest first in a release list.
AllTags == {"v1.12.0", "v1.11.0", "v1.10.0"}

\* The release lists of at most MaxReleases tags drawn from T, none repeated.
ReleaseLists(T) ==
    { s \in UNION { [1..n -> T] : n \in 0..MaxReleases } :
        \A i, j \in 1..Len(s) : s[i] = s[j] => i = j }

\* The errors the release query can end with.
ReleaseErrors ==
    { [kind |-> "HttpError", payload |-> <<"4","0","3">>],
      [kind |-> "IO", payload |-> <<>>] }

\* relay.releases().await: what the release query of `relay` can return.
releases(relay, T) ==
    { Ok(l) : l \in ReleaseLists(T) } \cup { Err(e) : e \in ReleaseErrors }

\* Binary::resolve_version: the tag to use, an Option<String> (it is handed
\* to try_into's `tag` as it is, with no `?` and no await). The version the
\* caller names is the tag, as the tests expect; with none named it is a
\* release, a tag found in the cache, or nothing.
resolve_version(name, version, available, cache) ==
    IF version # None
    THEN {version}
    ELSE {None} \cup {Some(t) : t \in AllTags}

\* try_into with the workers collected ahead of the primary binary.
try_into_workers_first(relay, tag, latest, h) ==
    LET repo == parse(repository(relay))
        tgt == target(h)
    IN  IF ~repo.ok THEN repo
        ELSE IF ~tgt.ok THEN tgt
        ELSE Ok([ source |-> "GitHub::ReleaseArchive",
                  owner |-> repo.value.org,
                  repository |-> repo.value.name,
                  tag |-> tag,
                  tag_format |-> Some(tag_format(relay)),
                  archive |-> binary(relay) \o <<"-">> \o tgt.value \o TarGz,
                  contents |-> workers(relay) \o <<binary(relay)>>,
                  latest |-> latest ])

\* ------------------------------------------------------------- try_into
\* <&RelayChain as TryInto>::try_into on host h.
try_into(relay, tag, latest, h) ==
    LET repo == parse(repository(relay))
        tgt == target(h)
    IN  IF ~repo.ok THEN repo
        ELSE IF ~tgt.ok THEN tgt
        ELSE Ok([ source |-> "GitHub::ReleaseArchive",
                  owner |-> repo.value.org,
                  repository |-> repo.value.name,
                  tag |-> tag,
                  tag_format |-> Some(tag_format(relay)),
                  archive |-> binary(relay) \o <<"-">> \o tgt.value \o TarGz,
                  contents |-> <<binary(relay)>> \o workers(relay),
                  latest |-> latest ])

\* The collaborators try_into calls, in the order it calls them.
try_into_steps(relay, h) ==
    IF ~parse(repository(relay)).ok THEN <<"parse">> ELSE <<"parse", "target">>

\* ------------------------------------------------------------- state
CallIds == 1..MaxCalls

VARIABLES
    host,      \* the target triple of the host, None when it has none
    pc,        \* per call: "idle", "awaiting" (suspended at releases().await),
               \* "done" or "cancelled" (dropped while suspended)
    entry,     \* per call: None or Some of the entry point called and what
               \* the caller gave it
    args,      \* per call: None or Some of command, version, cache
    relay,     \* per call: the matched variant held across the await
    served,    \* per call: what the release query returned to it
    resolved,  \* per call: what resolve_version returned to it
    steps,     \* per call: the collaborators called so far, in order
    result     \* per call: None or Some of the Result returned

vars == <<host, pc, entry, args, relay, served, resolved, steps, result>>

Init ==
    /\ host \in Hosts
    /\ pc = [c \in CallIds |-> "idle"]
    /\ entry = [c \in CallIds |-> None]
    /\ args = [c \in CallIds |-> None]
    /\ relay = [c \in CallIds |-> None]
    /\ served = [c \in CallIds |-> None]
    /\ resolved = [c \in CallIds |-> None]
    /\ steps = [c \in CallIds |-> <<>>]
    /\ result = [c \in CallIds |-> None]

\* ------------------------------------------------------------- from
\* "the relay chain command is unsupported: "
UnsupportedPrefix ==
    <<"t","h","e"," ","r","e","l","a","y"," ","c","h","a","i","n"," ",
      "c","o","m","m","a","n","d"," ","i","s"," ",
      "u","n","s","u","p","p","o","r","t","e","d",":"," ">>

\* UnsupportedCommand carrying the lower-cased command.
UnsupportedCommand_lower(command) ==
    [kind |-> "UnsupportedCommand",
     payload |-> UnsupportedPrefix \o to_lowercase(command)]

\* Error::UnsupportedCommand(format!("the relay chain command is unsupported: {command}"))
UnsupportedCommand(command) ==
    [kind |-> "UnsupportedCommand", payload |-> UnsupportedPrefix \o command]

\* The filter without to_lowercase.
Matching_exact_case(command) ==
    SelectSeq(VARIANTS, LAMBDA r : ends_with(command, binary(r)))

\* RelayChain::VARIANTS.iter().filter(|r| command.to_lowercase().ends_with(r.binary()))
Matching(command) ==
    SelectSeq(VARIANTS, LAMBDA r : ends_with(to_lowercase(command), binary(r)))

\* `from` querying the releases of the first variant before it looks at the
\* command.
from_poll_eager(c, command, version, cache) ==
    /\ pc[c] = "idle"
    /\ args' = [args EXCEPT ![c] =
                   Some([command |-> command, version |-> version, cache |-> cache])]
    /\ steps' = [steps EXCEPT ![c] = <<"releases">>]
    /\ IF Matching(command) # <<>>
       THEN /\ relay' = [relay EXCEPT ![c] = Some(Head(Matching(command)))]
            /\ pc' = [pc EXCEPT ![c] = "awaiting"]
            /\ UNCHANGED result
       ELSE /\ result' = [result EXCEPT ![c] = Some(Err(UnsupportedCommand(command)))]
            /\ pc' = [pc EXCEPT ![c] = "done"]
            /\ UNCHANGED relay
    /\ UNCHANGED <<host, served, resolved>>

\* `from` up to its first suspension: the first matching variant's release
\* query is awaited; with no match the loop body never runs and the call
\* returns UnsupportedCommand.
from_poll(c, command, version, cache) ==
    /\ pc[c] = "idle"
    /\ args' = [args EXCEPT ![c] =
                   Some([command |-> command, version |-> version, cache |-> cache])]
    /\ IF Matching(command) # <<>>
       THEN /\ relay' = [relay EXCEPT ![c] = Some(Head(Matching(command)))]
            /\ steps' = [steps EXCEPT ![c] = <<"releases">>]
            /\ pc' = [pc EXCEPT ![c] = "awaiting"]
            /\ UNCHANGED result
       ELSE /\ result' = [result EXCEPT ![c] = Some(Err(UnsupportedCommand(command)))]
            /\ pc' = [pc EXCEPT ![c] = "done"]
            /\ UNCHANGED <<relay, steps>>
    /\ UNCHANGED <<host, served, resolved>>

\* pub(super) async fn from(command, version, cache)
from(c, command, version, cache) ==
    /\ entry' = [entry EXCEPT ![c] =
                    Some([fn |-> "from", command |-> command,
                          version |-> version, cache |-> cache])]
    /\ from_poll(c, command, version, cache)

\* `default` dropping the version it was given.
default_unpinned(c, version, cache) ==
    /\ entry' = [entry EXCEPT ![c] =
                    Some([fn |-> "default", command |-> None,
                          version |-> version, cache |-> cache])]
    /\ from_poll(c, binary("Polkadot"), None, cache)

\* pub(super) async fn default(version, cache)
default(c, version, cache) ==
    /\ entry' = [entry EXCEPT ![c] =
                    Some([fn |-> "default", command |-> None,
                          version |-> version, cache |-> cache])]
    /\ from_poll(c, binary("Polkadot"), version, cache)

\* latest set whether or not the caller named a version.
latest_of_always(version, available) ==
    IF available # <<>> THEN Some(available[1]) ELSE None

\* latest taken from the end of the release list.
latest_of_last(version, available) ==
    IF version = None
    THEN IF available # <<>> THEN Some(available[Len(available)]) ELSE None
    ELSE None

\* version.is_none().then(|| releases.iter().nth(0).map(|v| v.to_string())).flatten()
latest_of(version, available) ==
    IF version = None
    THEN IF available # <<>> THEN Some(available[1]) ELSE None
    ELSE None

\* The loop body giving up when resolve_version yields no tag.
from_body_fallible(r, a, available, tag, h) ==
    LET name == binary(r)
        latest == latest_of(a.version, available)
        source == try_into(r, tag, latest, h)
    IN  IF tag = None
        THEN Err([kind |-> "MissingBinary", payload |-> name])
        ELSE IF ~source.ok
        THEN source
        ELSE Ok([ binary |-> [name |-> name, source |-> source.value, cache |-> a.cache],
                  workers |-> workers(r) ])

\* The rest of the loop body, from the release list to the return.
from_body(r, a, available, tag, h) ==
    LET name == binary(r)
        latest == latest_of(a.version, available)
        source == try_into(r, tag, latest, h)
    IN  IF ~source.ok
        THEN source
        ELSE Ok([ binary |-> [name |-> name, source |-> source.value, cache |-> a.cache],
                  workers |-> workers(r) ])

\* The result of `from` run on its own: for the command, version and cache
\* it is given, the outcome `out` of its release query and the tag
\* resolve_version yields, on host h.
run_alone(command, version, cache, out, tag, h) ==
    IF Matching(command) = <<>>
    THEN Err(UnsupportedCommand(command))
    ELSE IF ~out.ok
    THEN Err(out.error)
    ELSE from_body(Head(Matching(command)),
                   [command |-> command, version |-> version, cache |-> cache],
                   out.value, tag, h)

\* A failed release query answered with an empty release list.
from_releases_err_fallback(c, out) ==
    /\ pc[c] = "awaiting"
    /\ ~out.ok
    /\ LET r == relay[c][1]
           a == args[c][1]
       IN  \E tag \in resolve_version(binary(r), a.version, <<>>, a.cache) :
               /\ served' = [served EXCEPT ![c] = Some(out)]
               /\ resolved' = [resolved EXCEPT ![c] = Some(tag)]
               /\ steps' = [steps EXCEPT ![c] =
                               @ \o <<"resolve_version">> \o try_into_steps(r, host)]
               /\ result' = [result EXCEPT ![c] =
                                Some(from_body(r, a, <<>>, tag, host))]
    /\ pc' = [pc EXCEPT ![c] = "done"]
    /\ relay' = [relay EXCEPT ![c] = None]
    /\ UNCHANGED <<host, entry, args>>

\* The release query of call c fails: `?` returns its error.
from_releases_err(c, out) ==
    /\ pc[c] = "awaiting"
    /\ ~out.ok
    /\ served' = [served EXCEPT ![c] = Some(out)]
    /\ result' = [result EXCEPT ![c] = Some(Err(out.error))]
    /\ pc' = [pc EXCEPT ![c] = "done"]
    /\ relay' = [relay EXCEPT ![c] = None]
    /\ UNCHANGED <<host, entry, args, resolved, steps>>

\* The release list kept in one place for every suspended call: the list
\* returned to call c completes the other suspended calls too.
from_releases_ok_shared(c, out) ==
    /\ pc[c] = "awaiting"
    /\ out.ok
    /\ \E tag \in resolve_version(binary(relay[c][1]), args[c][1].version,
                                  out.value, args[c][1].cache) :
           LET W == {d \in CallIds : pc[d] = "awaiting"}
           IN  /\ served' = [served EXCEPT ![c] = Some(out)]
               /\ resolved' = [resolved EXCEPT ![c] = Some(tag)]
               /\ steps' = [d \in CallIds |->
                               IF d \in W
                               THEN steps[d] \o <<"resolve_version">>
                                             \o try_into_steps(relay[d][1], host)
                               ELSE steps[d]]
               /\ result' = [d \in CallIds |->
                                IF d \in W
                                THEN Some(from_body(relay[d][1], args[d][1],
                                                    out.value, tag, host))
                                ELSE result[d]]
               /\ pc' = [d \in CallIds |-> IF d \in W THEN "done" ELSE pc[d]]
               /\ relay' = [d \in CallIds |-> IF d \in W THEN None ELSE relay[d]]
    /\ UNCHANGED <<host, entry, args>>

\* The release query of call c returns a list: the call runs to its return.
from_releases_ok(c, out) ==
    /\ pc[c] = "awaiting"
    /\ out.ok
    /\ LET r == relay[c][1]
           a == args[c][1]
       IN  \E tag \in resolve_version(binary(r), a.version, out.value, a.cache) :
               /\ served' = [served EXCEPT ![c] = Some(out)]
               /\ resolved' = [resolved EXCEPT ![c] = Some(tag)]
               /\ steps' = [steps EXCEPT ![c] =
                               @ \o <<"resolve_version">> \o try_into_steps(r, host)]
               /\ result' = [result EXCEPT ![c] =
                                Some(from_body(r, a, out.value, tag, host))]
    /\ pc' = [pc EXCEPT ![c] = "done"]
    /\ relay' = [relay EXCEPT ![c] = None]
    /\ UNCHANGED <<host, entry, args>>

\* The caller drops the future of call c while it is suspended: its frame goes.
cancel(c) ==
    /\ pc[c] = "awaiting"
    /\ pc' = [pc EXCEPT ![c] = "cancelled"]
    /\ relay' = [relay EXCEPT ![c] = None]
    /\ UNCHANGED <<host, entry, args, served, resolved, steps, result>>

\* ------------------------------------------------------------- inputs
Prefixes ==
    { <<>>, <<".","/">>, <<"x">>,
      <<".","/","b","i","n","-","v","1",".","6",".","0","/">> }
Bases ==
    { <<"p","o","l","k","a","d","o","t">>,
      <<"P","O","L","K","A","D","O","T">>,
      <<"P","o","l","k","a","D","o","t">>,
      <<"p","o","l","k","a","d","o","t","x">>,
      <<"p","o","l","k","a","d","o">>,
      <<"s","l","o","n","k","a","d","o","t">>,
      <<"n","o","n","e">>,
      <<"N","o","n","e">>,
      <<>> }
Commands == { p \o b : p \in Prefixes, b \in Bases }
Versions == {None} \cup {Some(t) : t \in AllTags}
Caches == {"/tmp/cache-a", "/tmp/cache-b"}

\* One call at a time, over every command, version and cache.
Next ==
    \/ \E command \in Commands, version \in Versions, cache \in Caches :
           from(1, command, version, cache)
    \/ \E version \in Versions, cache \in Caches : default(1, version, cache)
    \/ \E out \in releases("Polkadot", AllTags) : from_releases_err(1, out)
    \/ \E out \in releases("Polkadot", AllTags) : from_releases_ok(1, out)
    \/ cancel(1)

Spec == Init /\ [][Next]_vars

\* Calls of `from` in flight together, over a few commands, versions and
\* release tags.
ConcCommands ==
    { <<".","/","P","o","l","k","a","d","o","t">>, <<"n","o","n","e">> }
ConcVersions == {None, Some("v1.12.0")}
ConcCaches == {"/tmp/cache-a"}
ConcTags == {"v1.12.0", "v1.11.0"}

NextConc ==
    \E c \in CallIds :
        \/ \E command \in ConcCommands, version \in ConcVersions, cache \in ConcCaches :
               from(c, command, version, cache)
        \/ \E out \in releases("Polkadot", ConcTags) : from_releases_err(c, out)
        \/ \E out \in releases("Polkadot", ConcTags) : from_releases_ok(c, out)
        \/ cancel(c)

SpecConc == Init /\ [][NextConc]_vars

\* ------------------------------------------------------------- properties
Done(c) == pc[c] = "done"
Res(c) == result[c][1]
Arg(c) == args[c][1]
Succeeded(c) == Done(c) /\ Res(c).ok
Failed(c, kind) == Done(c) /\ ~Res(c).ok /\ Res(c).error.kind = kind
Source(c) == Res(c).value.binary.source

\* "polkadot", "POLKADOT", "./bin-v1.6.0/polkadot" and "none", as the
\* documentation and the tests write them.
PolkadotName == <<"p","o","l","k","a","d","o","t">>
PolkadotUpper == <<"P","O","L","K","A","D","O","T">>
PolkadotLocal ==
    <<".","/","b","i","n","-","v","1",".","6",".","0","/",
      "p","o","l","k","a","d","o","t">>
NoneCommand == <<"n","o","n","e">>

\* The variants, by their place in VARIANTS, whose binary name ends the
\* lower-cased command: some prefix followed by the name is the command.
Candidates(cmd) ==
    LET low == to_lowercase(cmd)
    IN  { i \in 1..Len(VARIANTS) :
            \E k \in 0..Len(low) : low = SubSeq(low, 1, k) \o binary(VARIANTS[i]) }
FirstCandidate(cmd) ==
    VARIANTS[CHOOSE i \in Candidates(cmd) : \A j \in Candidates(cmd) : i <= j]

\* C1: a call of `from` that names a version and succeeds returns a source
\* whose `latest` is absent, whatever the release list was.
C1_ExplicitVersionNoLatest ==
    \A c \in CallIds :
        (Succeeded(c) /\ Arg(c).version # None) => Source(c).latest = None

C1_Witness ==
    \E c \in CallIds :
        /\ Succeeded(c)
        /\ Arg(c).version # None
        /\ Len(served[c][1].value) > 0
        /\ Source(c).latest = None

\* C2: a call of `from` that names no version and succeeds returns a source
\* whose `latest` is the first release of the list the query returned, and
\* is absent when that list is empty.
C2_NoVersionLatestIsFirst ==
    \A c \in CallIds :
        (Succeeded(c) /\ Arg(c).version = None) =>
            LET l == served[c][1].value
            IN  IF Len(l) = 0
                THEN Source(c).latest = None
                ELSE Source(c).latest = Some(l[1])

C2_Witness ==
    \E c \in CallIds :
        /\ Succeeded(c)
        /\ Arg(c).version = None
        /\ Len(served[c][1].value) >= 2
        /\ served[c][1].value[1] # served[c][1].value[2]
        /\ Source(c).latest = Some(served[c][1].value[1])

\* C3: `from` picks the first variant, in declared order, whose binary name
\* is a suffix of the lower-cased command: "polkadot", "POLKADOT" and
\* "./bin-v1.6.0/polkadot" resolve to Polkadot, and a call fails with
\* UnsupportedCommand exactly when no binary name is such a suffix.
C3_SuffixMatchIgnoringCase ==
    \A c \in CallIds :
        args[c] # None =>
            LET cmd == Arg(c).command
            IN  /\ (Candidates(cmd) = {}) <=> Failed(c, "UnsupportedCommand")
                /\ pc[c] = "awaiting" =>
                       /\ Candidates(cmd) # {}
                       /\ relay[c] = Some(FirstCandidate(cmd))
                /\ Succeeded(c) =>
                       Res(c).value.binary.name = binary(FirstCandidate(cmd))
                /\ cmd \in {PolkadotName, PolkadotUpper, PolkadotLocal} =>
                       /\ ~Failed(c, "UnsupportedCommand")
                       /\ pc[c] = "awaiting" => relay[c] = Some("Polkadot")
                       /\ Succeeded(c) => Res(c).value.binary.name = PolkadotName

C3_Witness ==
    \E c \in CallIds :
        /\ pc[c] = "awaiting"
        /\ Arg(c).command = PolkadotUpper
        /\ relay[c] = Some("Polkadot")

\* C4 as stated: with no binary name a suffix of the lower-cased command,
\* `from` fails with UnsupportedCommand whose payload is the command as given.
C4_PayloadIsCommand ==
    \A c \in CallIds :
        (args[c] # None /\ Candidates(Arg(c).command) = {}) =>
            /\ Failed(c, "UnsupportedCommand")
            /\ Res(c).error.payload = Arg(c).command

\* "the relay chain command is unsupported: none"
UnsupportedNone ==
    <<"t","h","e"," ","r","e","l","a","y"," ","c","h","a","i","n"," ",
      "c","o","m","m","a","n","d"," ","i","s"," ",
      "u","n","s","u","p","p","o","r","t","e","d",":"," ","n","o","n","e">>

\* C4 as amended: with no binary name a suffix of the lower-cased command,
\* `from` fails with UnsupportedCommand whose payload is the message
\* "the relay chain command is unsupported: " followed by the command as
\* given, not lower-cased; for "none" it is
\* "the relay chain command is unsupported: none".
C4_PayloadIsMessageThenCommand ==
    \A c \in CallIds :
        (args[c] # None /\ Candidates(Arg(c).command) = {}) =>
            LET cmd == Arg(c).command
                msg == Res(c).error.payload
            IN  /\ Failed(c, "UnsupportedCommand")
                /\ Len(msg) = Len(UnsupportedNone) - Len(NoneCommand) + Len(cmd)
                /\ SubSeq(msg, 1, Len(msg) - Len(cmd))
                     = SubSeq(UnsupportedNone, 1, Len(UnsupportedNone) - Len(NoneCommand))
                /\ SubSeq(msg, Len(msg) - Len(cmd) + 1, Len(msg)) = cmd
                /\ cmd = NoneCommand => msg = UnsupportedNone

C4_Witness ==
    \E c \in CallIds :
        /\ Failed(c, "UnsupportedCommand")
        /\ Arg(c).command = <<"N","o","n","e">>
        /\ Res(c).error.payload # UnsupportedNone
        /\ to_lowercase(Res(c).error.payload) = UnsupportedNone

\* C5 as stated: resolve_version is fallible to `from`; a call in which it
\* yields no tag ends in an error and builds no descriptor.
C5_NoTagFailsCall ==
    \A c \in CallIds :
        (Done(c) /\ resolved[c] = Some(None)) => ~Res(c).ok

\* C5 as amended: resolve_version is not fallible to `from`. It yields an
\* optional tag, which `from` passes unchanged as the descriptor's tag; when
\* it yields none the descriptor is still built, with its tag absent. A call
\* whose release query succeeded fails only with InvalidRepository or
\* UnsupportedPlatform, the errors of the descriptor build.
C5_TagPassedThrough ==
    \A c \in CallIds :
        (Done(c) /\ served[c] # None /\ served[c][1].ok) =>
            /\ resolved[c] # None
            /\ Res(c).ok => Source(c).tag = resolved[c][1]
            /\ ~Res(c).ok =>
                   Res(c).error.kind \in {"InvalidRepository", "UnsupportedPlatform"}

C5_Witness ==
    \E c \in CallIds :
        /\ Succeeded(c)
        /\ resolved[c] = Some(None)
        /\ Source(c).tag = None

\* C6: when the release query of the matched variant fails, `from` fails
\* with exactly that error and returns nothing else: no version is resolved,
\* no descriptor is built, and no call issues more than one release query.
C6_ReleaseErrorPropagates ==
    \A c \in CallIds :
        /\ Cardinality({i \in 1..Len(steps[c]) : steps[c][i] = "releases"}) <= 1
        /\ (Done(c) /\ served[c] # None /\ ~served[c][1].ok) =>
               /\ ~Res(c).ok
               /\ Res(c).error = served[c][1].error
               /\ resolved[c] = None
               /\ steps[c] = <<"releases">>

C6_Witness ==
    \E c \in CallIds :
        /\ Done(c)
        /\ served[c] # None
        /\ ~served[c][1].ok
        /\ Res(c).error.kind = "HttpError"

\* C7: the descriptor try_into builds lists the primary binary name first
\* and then the variant's workers in declared order, and the workers
\* returned beside the binary are the contents after that first name.
C7_ContentsBinaryThenWorkers ==
    \A c \in CallIds :
        Succeeded(c) =>
            LET contents == Source(c).contents
                r == FirstCandidate(Arg(c).command)
            IN  /\ Len(contents) = 1 + Len(workers(r))
                /\ contents[1] = binary(r)
                /\ SubSeq(contents, 2, Len(contents)) = workers(r)
                /\ Res(c).value.workers = SubSeq(contents, 2, Len(contents))
                /\ contents[1] = PolkadotName
                /\ Len(contents) = 3

C7_Witness ==
    \E c \in CallIds :
        /\ Succeeded(c)
        /\ Source(c).tag # None
        /\ Source(c).latest # None
        /\ Source(c).contents[1] = PolkadotName
        /\ Len(Res(c).value.workers) = 2

\* "r0gue-io" and "polkadot-{tag}", as the tests write them.
OwnerName == <<"r","0","g","u","e","-","i","o">>
TagFormatName == <<"p","o","l","k","a","d","o","t","-","{","t","a","g","}">>

\* C8: `default` resolves Polkadot for every version and cache: it never
\* fails with UnsupportedCommand, its result is that of `from` called with
\* "polkadot" and the same version and cache, and the binary returned is
\* named "polkadot", keeps the cache given, and is sourced from owner
\* "r0gue-io", repository "polkadot", with tag format "polkadot-{tag}".
C8_DefaultIsFromPolkadot ==
    \A c \in CallIds :
        (entry[c] # None /\ entry[c][1].fn = "default") =>
            LET e == entry[c][1]
            IN  /\ pc[c] \in {"awaiting", "cancelled", "done"}
                /\ pc[c] = "awaiting" => relay[c] = Some("Polkadot")
                /\ ~Failed(c, "UnsupportedCommand")
                /\ Done(c) =>
                       /\ served[c] # None
                       /\ served[c][1].ok =>
                              /\ resolved[c] # None
                              /\ resolved[c][1] \in
                                     resolve_version(PolkadotName, e.version,
                                                     served[c][1].value, e.cache)
                       /\ Res(c) = run_alone(PolkadotName, e.version, e.cache,
                                             served[c][1],
                                             IF resolved[c] = None THEN None
                                             ELSE resolved[c][1],
                                             host)
                /\ Succeeded(c) =>
                       /\ Res(c).value.binary.name = PolkadotName
                       /\ Res(c).value.binary.cache = e.cache
                       /\ Source(c).owner = OwnerName
                       /\ Source(c).repository = PolkadotName
                       /\ Source(c).tag_format = Some(TagFormatName)

C8_Witness ==
    \E c \in CallIds :
        /\ entry[c] # None
        /\ entry[c][1].fn = "default"
        /\ entry[c][1].version = Some("v1.12.0")
        /\ Succeeded(c)
        /\ Source(c).tag = Some("v1.12.0")
        /\ Source(c).owner = OwnerName
        /\ Len(served[c][1].value) > 0

\* Every call that has returned holds the result it would have returned
\* run on its own with its command, version and cache, the outcome of its
\* own release query and the tag resolved for it.
ResultsOwn ==
    \A c \in CallIds :
        /\ pc[c] # "done" => result[c] = None
        /\ Done(c) =>
               /\ result[c] # None
               /\ Candidates(Arg(c).command) # {} => served[c] # None
               /\ (served[c] # None /\ served[c][1].ok) => resolved[c] # None
               /\ Res(c) = run_alone(Arg(c).command, Arg(c).version, Arg(c).cache,
                                     IF served[c] = None THEN Err(None)
                                     ELSE served[c][1],
                                     IF resolved[c] = None THEN None
                                     ELSE resolved[c][1],
                                     host)

\* A step of one call leaves every other call as it was, and dropping a
\* suspended call changes nothing but that call's own frame: nothing is
\* returned, nothing is recorded, the host is as before.
StepsOwn ==
    /\ host' = host
    /\ \A c \in CallIds :
           /\ (pc'[c] # pc[c] \/ result'[c] # result[c] \/ args'[c] # args[c]
                 \/ served'[c] # served[c] \/ resolved'[c] # resolved[c]
                 \/ steps'[c] # steps[c] \/ relay'[c] # relay[c]) =>
                  \A d \in CallIds \ {c} :
                      /\ pc'[d] = pc[d]
                      /\ result'[d] = result[d]
                      /\ args'[d] = args[d]
                      /\ served'[d] = served[d]
                      /\ resolved'[d] = resolved[d]
                      /\ steps'[d] = steps[d]
                      /\ relay'[d] = relay[d]
           /\ Done(c) => result'[c] = result[c]
           /\ (pc[c] = "awaiting" /\ pc'[c] = "cancelled") =>
                  /\ result'[c] = None
                  /\ served'[c] = served[c]
                  /\ resolved'[c] = resolved[c]
                  /\ steps'[c] = steps[c]
                  /\ args'[c] = args[c]

\* C9: calls in flight together are independent: each returns what it
\* would return alone, from its own inputs and the release list returned to
\* it, and a call dropped while suspended leaves everything else unchanged.
C9_CallsIndependent == [] ResultsOwn /\ [][StepsOwn]_vars

C9_Witness ==
    \E c, d \in CallIds :
        /\ c # d
        /\ pc[c] = "cancelled"
        /\ Succeeded(d)
        /\ Arg(c) = Arg(d)
        /\ Source(d).latest # None

\* try_into's collaborators after the release query and the resolution.
StepOrder == <<"releases", "resolve_version", "parse", "target">>

\* C10: within a call the delegated steps run in one order and only after
\* a variant matched: release query, version resolution, repository parse,
\* target lookup. A call failing with UnsupportedCommand has queried and
\* resolved nothing; a call failing with InvalidRepository or
\* UnsupportedPlatform has had its release list and its tag.
C10_StepsInOrder ==
    \A c \in CallIds :
        /\ Len(steps[c]) <= Len(StepOrder)
        /\ steps[c] = SubSeq(StepOrder, 1, Len(steps[c]))
        /\ steps[c] # <<>> => (args[c] # None /\ Candidates(Arg(c).command) # {})
        /\ Failed(c, "UnsupportedCommand") =>
               /\ steps[c] = <<>>
               /\ served[c] = None
               /\ resolved[c] = None
        /\ Failed(c, "InvalidRepository") =>
               /\ served[c] # None
               /\ served[c][1].ok
               /\ resolved[c] # None
               /\ steps[c] = SubSeq(StepOrder, 1, 3)
        /\ Failed(c, "UnsupportedPlatform") =>
               /\ served[c] # None
               /\ served[c][1].ok
               /\ resolved[c] # None
               /\ steps[c] = StepOrder
        /\ Succeeded(c) => steps[c] = StepOrder

C10_Witness ==
    \E c \in CallIds :
        /\ Failed(c, "UnsupportedPlatform")
        /\ steps[c] = StepOrder
        /\ served[c][1].ok

====
